---- MODULE Spec2Model ----
(***************************************************************************)
(* Model of the CodeKids learning-progress tracker (src/main.py,           *)
(* src/models.py): the JSON files, the module-level dictionaries of        *)
(* models.py, the names main.py bound to them at import, and the handlers  *)
(* /start, get_user, update_progress and get_user_stats.                   *)
(*                                                                         *)
(* Dates are day numbers, day 0 being the day the process starts: the     *)
(* code only compares the .date() of last_active with today and with      *)
(* today - 1 day.  An Optional value is a sequence of length 0 or 1.       *)
(* A progress key                                                          *)
(* f"{user_id}_{course_id}_{lesson_id}" is the triple <<user, course,      *)
(* lesson>>: user_id and lesson_id are integers, so the formatted key      *)
(* determines the triple.  The quiz responses (user_responses_db) are      *)
(* written by save_response_data only and read by no handler modelled      *)
(* here; they are left out.                                                *)
(*                                                                         *)
(* Spec is one server process, each handler call one step.  SpecWorkers    *)
(* is two server processes that share the data files, update_progress     *)
(* taken file access by file access.                                       *)
(***************************************************************************)
EXTENDS Integers, Sequences, FiniteSets, TLC

VARIABLES
    users_file,             \* data/users.json: user id -> stored user
    progress_file,          \* data/progress.json: key -> stored progress
    models_users_db,        \* models.users_db, rebound by load_all_data
    models_progress_db,     \* models.courses_progress_db, rebound likewise
    users_db,               \* the dict main.py bound as users_db at import
    courses_progress_db,    \* the dict main.py bound as courses_progress_db
    today,                  \* datetime.utcnow().date() as a day number
    resp,                   \* the last call: request, locals and response
    day_xp,                 \* per user, the xp_gained of today's fresh completions
    nops,                   \* number of calls made so far
    workers                 \* the server processes that share the data files

vars == <<users_file, progress_file, models_users_db, models_progress_db,
          users_db, courses_progress_db, today, resp, day_xp, nops, workers>>

----------------------------------------------------------------------------
(* Bounds of the exploration and the values the requests are drawn from *)

MaxOps == 3
MaxDay == 1
MaxCalls == 2

UserIds == {1}
LessonIds == {1, 2}
CourseIds == {"html"}
Scores == {-300, 95}
Times == {30}
Workers == {1, 2}

----------------------------------------------------------------------------
(* models.py *)

Max(a, b) == IF a >= b THEN a ELSE b

EmptyDb == [k \in {} |-> 0]

\* The catalog: course id -> lessons_count
PROGRAMMING_COURSES == [c \in {"html", "python", "roblox"} |-> 3]

calculate_level(xp) == Max(1, 1 + (xp \div 100))

reset_daily_stats(user, now) ==
    IF user.last_active < now
    THEN [user EXCEPT !.streak = IF user.last_active = now - 1 THEN @ ELSE 1,
                      !.daily_xp = 0]
    ELSE user

\* load_json followed by the dict comprehension of load_all_data: one
\* object per stored entry, under the same key
load_json(file) == [k \in DOMAIN file |-> file[k]]

\* save_user / save_progress: the entry is written only when the key is in
\* the models.py dictionary; the file is re-read, the one entry replaced
\* and the whole file rewritten
save_entry(file, db, key) ==
    IF key \in DOMAIN db
    THEN [k \in DOMAIN file \cup {key} |-> IF k = key THEN db[key] ELSE file[k]]
    ELSE file

save_user(file, db, user_id) == save_entry(file, db, user_id)

save_progress(file, db, course_key) == save_entry(file, db, course_key)

----------------------------------------------------------------------------
(* main.py *)

\* User(...) as built by /start
NewUser(now) ==
    [xp |-> 0, coins |-> 100, streak |-> 0, level |-> 1, last_active |-> now,
     daily_goal |-> 20, daily_xp |-> 0, total_lessons_completed |-> 0,
     achievements |-> <<>>]

NoUser ==
    [xp |-> 0, coins |-> 0, streak |-> 0, level |-> 0, last_active |-> 0,
     daily_goal |-> 0, daily_xp |-> 0, total_lessons_completed |-> 0,
     achievements |-> <<>>]

NoProgress ==
    [user_id |-> 0, course_id |-> "", lesson_id |-> 0, completed |-> FALSE,
     score |-> 0, completed_at |-> <<>>, time_spent |-> 0]

NoStats == [c \in DOMAIN PROGRAMMING_COURSES |->
    [completed |-> 0, total |-> 0, progress |-> 0, average_score |-> 0,
     total_time |-> 0]]

course_key(p) == <<p.user_id, p.course_id, p.lesson_id>>

Has(seq, x) == \E i \in 1 .. Len(seq) : seq[i] = x

\* The prior record is not consulted
was_completed_ignored(db, key) == FALSE

\* was_completed, lines 181-183
was_completed(db, key) == IF key \in DOMAIN db THEN db[key].completed ELSE FALSE

\* xp_gained, line 198
xp_for_score(score) == 10 + (score \div 10)

\* lines 199-203
award(user, xp_gained) ==
    LET u == [user EXCEPT !.xp = @ + xp_gained,
                          !.daily_xp = @ + xp_gained,
                          !.coins = @ + 5,
                          !.total_lessons_completed = @ + 1]
    IN  [u EXCEPT !.level = calculate_level(u.xp)]

\* A completion on the day of last_active also counts as a continuation
update_streak_same_day(user, now) ==
    [user EXCEPT !.streak = IF user.last_active >= now - 1 THEN @ + 1
                            ELSE 1,
                 !.last_active = now]

\* lines 206-214; last_date is the date of last_active before the call
update_streak(user, now) ==
    [user EXCEPT !.streak = IF user.last_active = now - 1 THEN @ + 1
                            ELSE IF user.last_active < now - 1 THEN 1
                            ELSE @,
                 !.last_active = now]

\* The tags are appended without looking at the ones already held
achievements_to_add_unchecked(user) ==
    (IF user.streak = 7 THEN <<"7_day_streak">> ELSE <<>>)
    \o (IF user.streak = 30 THEN <<"30_day_streak">> ELSE <<>>)
    \o (IF user.total_lessons_completed = 10 THEN <<"10_lessons">> ELSE <<>>)
    \o (IF user.level >= 5 THEN <<"level_5">> ELSE <<>>)

\* lines 217-224
achievements_to_add(user) ==
    (IF user.streak = 7 /\ ~Has(user.achievements, "7_day_streak")
        THEN <<"7_day_streak">> ELSE <<>>)
    \o (IF user.streak = 30 /\ ~Has(user.achievements, "30_day_streak")
        THEN <<"30_day_streak">> ELSE <<>>)
    \o (IF user.total_lessons_completed = 10 /\ ~Has(user.achievements, "10_lessons")
        THEN <<"10_lessons">> ELSE <<>>)
    \o (IF user.level >= 5 /\ ~Has(user.achievements, "level_5")
        THEN <<"level_5">> ELSE <<>>)

\* int(a / b) of Python for b > 0: the quotient truncated towards zero
int_div(a, b) == IF a >= 0 THEN a \div b ELSE -((-a) \div b)

RECURSIVE SumOver(_, _, _)
SumOver(db, keys, field) ==
    IF keys = {} THEN 0
    ELSE LET k == CHOOSE x \in keys : TRUE
         IN  (IF field = "score" THEN db[k].score ELSE db[k].time_spent)
             + SumOver(db, keys \ {k}, field)

\* lines 258-277.  progress is int((completed / lessons_count) * 100) in
\* floating point; with lessons_count = 3 throughout the catalog this is
\* the integer quotient of completed * 100 by lessons_count
course_stats(db, user_id) ==
    [c \in DOMAIN PROGRAMMING_COURSES |->
        LET done == {k \in DOMAIN db :
                        /\ db[k].user_id = user_id
                        /\ db[k].course_id = c
                        /\ db[k].completed}
            completed_lessons == Cardinality(done)
            total_score == SumOver(db, done, "score")
            total_time == SumOver(db, done, "time_spent")
            lessons_count == PROGRAMMING_COURSES[c]
        IN  [completed |-> completed_lessons,
             total |-> lessons_count,
             progress |-> IF lessons_count > 0
                          THEN (completed_lessons * 100) \div lessons_count
                          ELSE 0,
             average_score |-> IF completed_lessons > 0
                               THEN int_div(total_score, completed_lessons)
                               ELSE 0,
             total_time |-> total_time]]

Response(op, user_id) ==
    [op |-> op, user_id |-> user_id, status |-> "success", req |-> NoProgress,
     was_completed |-> FALSE, xp_gained |-> 0, achievements |-> <<>>,
     repeat |-> FALSE, before |-> NoUser, existed |-> FALSE, user |-> NoUser, now |-> today,
     courses |-> NoStats]

Put(db, key, value) ==
    [k \in DOMAIN db \cup {key} |-> IF k = key THEN value ELSE db[k]]

\* A server process right after import: its own models.py dictionaries,
\* loaded from the files, and the names main.py bound to them; no request
\* in hand
ImportedWorker(users, progress) ==
    [pc |-> "idle",
     models_users_db |-> load_json(users),
     models_progress_db |-> load_json(progress),
     users_db |-> load_json(users),
     courses_progress_db |-> load_json(progress),
     progress |-> NoProgress,
     was_completed |-> FALSE,
     xp_gained |-> 0,
     achievements_to_add |-> <<>>,
     users_data |-> EmptyDb,
     progress_data |-> EmptyDb,
     held |-> FALSE,
     existed |-> FALSE,
     answered |-> FALSE]

ImportedWorkers(users, progress) ==
    [p \in Workers |-> ImportedWorker(users, progress)]

\* The payloads of POST /api/progress: pydantic checks the types only
Payloads ==
    [user_id : UserIds, course_id : CourseIds, lesson_id : LessonIds,
     completed : BOOLEAN, score : Scores, completed_at : {<<>>},
     time_spent : Times]

----------------------------------------------------------------------------
(* The stores found at start-up.  users.json is either absent or holds    *)
(* user 1 in a state the handlers produce: level = calculate_level(xp),   *)
(* no tag twice, nothing earned yet today.                                *)

StoredUser(xp, daily_xp, streak, total, last_active, achievements) ==
    [xp |-> xp, coins |-> 100 + 5 * total, streak |-> streak,
     level |-> calculate_level(xp), last_active |-> last_active,
     daily_goal |-> 20, daily_xp |-> daily_xp,
     total_lessons_completed |-> total, achievements |-> achievements]

InitialUsers ==
    { NewUser(0),
      StoredUser(38, 19, 2, 2, -2, <<>>),
      StoredUser(114, 19, 6, 6, -1, <<>>),
      StoredUser(390, 0, 6, 9, -1, <<"7_day_streak">>) }

InitialUsersFiles == {EmptyDb} \cup {[k \in {1} |-> u] : u \in InitialUsers}

InitialProgressFiles ==
    {EmptyDb} \cup
    {[k \in {<<1, "html", 1>>} |->
        [user_id |-> 1, course_id |-> "html", lesson_id |-> 1,
         completed |-> c, score |-> 0,
         completed_at |-> IF c THEN <<-1>> ELSE <<>>,
         time_spent |-> 30]] : c \in BOOLEAN}

\* import of models.py (load_all_data, line 149) and then of main.py, which
\* binds users_db and courses_progress_db to the dictionaries just loaded
Init ==
    /\ users_file \in InitialUsersFiles
    /\ progress_file \in InitialProgressFiles
    /\ models_users_db = load_json(users_file)
    /\ models_progress_db = load_json(progress_file)
    /\ users_db = load_json(users_file)
    /\ courses_progress_db = load_json(progress_file)
    /\ today = 0
    /\ resp = [Response("init", 0) EXCEPT !.now = 0]
    /\ day_xp = [u \in UserIds |-> 0]
    /\ nops = 0
    /\ workers = ImportedWorkers(users_file, progress_file)

\* load_all_data() at the head of every handler: the names of models.py are
\* rebound to freshly loaded dictionaries; the names main.py imported keep
\* the dictionaries they were bound to
load_all_data ==
    /\ models_users_db' = load_json(users_file)
    /\ models_progress_db' = load_json(progress_file)

\* /start, lines 58-88
start(user_id) ==
    /\ nops < MaxOps
    /\ nops' = nops + 1
    /\ load_all_data
    /\ LET existed == user_id \in DOMAIN users_db
           before == IF existed THEN users_db[user_id] ELSE NoUser
           reset == reset_daily_stats(before, today)
           after == IF existed
                    THEN [reset EXCEPT !.last_active = today,
                                       !.level = calculate_level(reset.xp)]
                    ELSE NewUser(today)
       IN  /\ users_db' = Put(users_db, user_id, after)
           /\ users_file' = save_user(users_file, models_users_db', user_id)
           /\ resp' = [Response("start", user_id) EXCEPT
                          !.before = before, !.existed = existed,
                          !.user = after]
    /\ UNCHANGED <<progress_file, courses_progress_db, today, day_xp, workers>>

\* GET /api/user/{user_id}, lines 112-138
get_user(user_id) ==
    /\ nops < MaxOps
    /\ nops' = nops + 1
    /\ load_all_data
    /\ IF user_id \notin DOMAIN users_db
       THEN /\ resp' = [Response("get_user", user_id) EXCEPT !.status = "404"]
            /\ UNCHANGED users_db
       ELSE LET before == users_db[user_id]
                reset == reset_daily_stats(before, today)
                after == [reset EXCEPT !.level = calculate_level(reset.xp),
                                       !.last_active = today]
            IN  /\ users_db' = [users_db EXCEPT ![user_id] = after]
                /\ resp' = [Response("get_user", user_id) EXCEPT
                               !.before = before, !.existed = TRUE,
                               !.user = after]
    /\ UNCHANGED <<users_file, progress_file, courses_progress_db, today, day_xp,
                   workers>>

\* POST /api/progress, lines 174-234
update_progress(progress) ==
    /\ nops < MaxOps
    /\ nops' = nops + 1
    /\ load_all_data
    /\ LET key == course_key(progress)
           user_id == progress.user_id
           was == was_completed(courses_progress_db, key)
           stamped == [progress EXCEPT
                          !.completed_at = IF progress.completed THEN <<today>>
                                           ELSE <<>>]
           existed == user_id \in DOMAIN users_db
           before == IF existed THEN users_db[user_id] ELSE NoUser
           fresh == progress.completed /\ ~was /\ existed
           xp_gained == IF fresh THEN xp_for_score(progress.score) ELSE 0
           awarded == update_streak(award(before, xp_gained), today)
           added == IF fresh THEN achievements_to_add(awarded) ELSE <<>>
           after == [awarded EXCEPT !.achievements = @ \o added]
       IN  /\ courses_progress_db' = Put(courses_progress_db, key, stamped)
           /\ progress_file' = save_progress(progress_file, models_progress_db', key)
           /\ IF fresh
              THEN /\ users_db' = [users_db EXCEPT ![user_id] = after]
                   /\ users_file' = save_user(users_file, models_users_db', user_id)
                   /\ day_xp' = [day_xp EXCEPT ![user_id] = @ + xp_gained]
              ELSE UNCHANGED <<users_db, users_file, day_xp>>
           /\ resp' = [Response("update_progress", user_id) EXCEPT
                          !.req = progress, !.was_completed = was,
                          !.repeat = (resp.op = "update_progress"
                                      /\ resp.req = progress),
                          !.xp_gained = xp_gained, !.achievements = added,
                          !.before = before, !.existed = existed,
                          !.user = IF fresh THEN after ELSE before]
    /\ UNCHANGED <<today, workers>>

\* GET /api/stats/{user_id}, lines 246-296
get_user_stats(user_id) ==
    /\ nops < MaxOps
    /\ nops' = nops + 1
    /\ load_all_data
    /\ IF user_id \notin DOMAIN users_db
       THEN /\ resp' = [Response("get_user_stats", user_id) EXCEPT !.status = "404"]
            /\ UNCHANGED users_db
       ELSE LET before == users_db[user_id]
                reset == reset_daily_stats(before, today)
                after == [reset EXCEPT !.level = calculate_level(reset.xp)]
            IN  /\ users_db' = [users_db EXCEPT ![user_id] = after]
                /\ resp' = [Response("get_user_stats", user_id) EXCEPT
                               !.before = before, !.existed = TRUE,
                               !.user = after,
                               !.courses = course_stats(courses_progress_db, user_id)]
    /\ UNCHANGED <<users_file, progress_file, courses_progress_db, today, day_xp,
                   workers>>

\* The UTC date changes
next_day ==
    /\ today < MaxDay
    /\ today' = today + 1
    /\ day_xp' = [u \in UserIds |-> 0]
    /\ UNCHANGED <<users_file, progress_file, models_users_db, models_progress_db,
                   users_db, courses_progress_db, resp, nops, workers>>

\* The process is started again: models.py and main.py are imported anew
restart ==
    /\ nops < MaxOps
    /\ nops' = nops + 1
    /\ load_all_data
    /\ users_db' = load_json(users_file)
    /\ courses_progress_db' = load_json(progress_file)
    /\ resp' = Response("restart", 0)
    /\ UNCHANGED <<users_file, progress_file, today, day_xp, workers>>

Next ==
    \/ \E u \in UserIds : start(u)
    \/ \E u \in UserIds : get_user(u)
    \/ \E p \in Payloads : update_progress(p)
    \/ \E u \in UserIds : get_user_stats(u)
    \/ next_day
    \/ restart

Spec == Init /\ [][Next]_vars

----------------------------------------------------------------------------
(* Several server processes.  Each process imports models.py and main.py  *)
(* for itself and shares only the data files with the others.  Inside a    *)
(* process update_progress is a coroutine without an await, so nothing of  *)
(* the same process runs between its statements; between processes every   *)
(* read and every write of a file is a step of its own.                    *)

one_process == <<models_users_db, models_progress_db, users_db,
                 courses_progress_db, today, resp, day_xp>>

Goto(p, pc, w) == [workers EXCEPT ![p] = [w EXCEPT !.pc = pc]]

\* POST /api/progress arrives at process p, line 175
receive(p, progress) ==
    /\ workers[p].pc = "idle"
    /\ nops < MaxCalls
    /\ nops' = nops + 1
    /\ workers' = Goto(p, "load_users",
                       [workers[p] EXCEPT !.progress = progress,
                                          !.was_completed = FALSE,
                                          !.xp_gained = 0,
                                          !.achievements_to_add = <<>>,
                                          !.held = FALSE,
                                          !.existed = FALSE,
                                          !.answered = FALSE])
    /\ UNCHANGED <<users_file, progress_file, one_process>>

\* load_all_data, lines 102-103 of models.py
load_users(p) ==
    /\ workers[p].pc = "load_users"
    /\ workers' = Goto(p, "load_progress",
                       [workers[p] EXCEPT !.models_users_db = load_json(users_file)])
    /\ UNCHANGED <<users_file, progress_file, one_process, nops>>

\* load_all_data, lines 106-107 of models.py, then lines 178-186 of main.py
\* and the test of save_progress, line 136 of models.py
load_progress(p) ==
    /\ workers[p].pc = "load_progress"
    /\ LET w == workers[p]
           key == course_key(w.progress)
           loaded == load_json(progress_file)
           stamped == [w.progress EXCEPT
                          !.completed_at = IF w.progress.completed THEN <<today>>
                                           ELSE <<>>]
       IN  workers' = Goto(p, IF key \in DOMAIN loaded THEN "save_progress_read"
                              ELSE "award",
                [w EXCEPT !.models_progress_db = loaded,
                          !.was_completed = was_completed(w.courses_progress_db, key),
                          !.held = (/\ key \in DOMAIN w.courses_progress_db
                                    /\ w.courses_progress_db[key].completed),
                          !.progress = stamped,
                          !.courses_progress_db = Put(@, key, stamped)])
    /\ UNCHANGED <<users_file, progress_file, one_process, nops>>

\* save_progress, line 137 of models.py
save_progress_read(p) ==
    /\ workers[p].pc = "save_progress_read"
    /\ workers' = Goto(p, "save_progress_write",
                       [workers[p] EXCEPT !.progress_data = load_json(progress_file)])
    /\ UNCHANGED <<users_file, progress_file, one_process, nops>>

\* save_progress, lines 138-139 of models.py
save_progress_write(p) ==
    /\ workers[p].pc = "save_progress_write"
    /\ LET w == workers[p]
           key == course_key(w.progress)
       IN  progress_file' = Put(w.progress_data, key, w.models_progress_db[key])
    /\ workers' = Goto(p, "award", workers[p])
    /\ UNCHANGED <<users_file, one_process, nops>>

\* lines 189-226 of main.py and the test of save_user, line 129 of models.py
award_user(p) ==
    /\ workers[p].pc = "award"
    /\ LET w == workers[p]
           user_id == w.progress.user_id
           existed == user_id \in DOMAIN w.users_db
           fresh == w.progress.completed /\ ~w.was_completed /\ existed
           xp_gained == xp_for_score(w.progress.score)
           awarded == update_streak(award(w.users_db[user_id], xp_gained), today)
           added == achievements_to_add(awarded)
           after == [awarded EXCEPT !.achievements = @ \o added]
       IN  IF fresh
           THEN workers' = Goto(p, IF user_id \in DOMAIN w.models_users_db
                                   THEN "save_user_read" ELSE "return",
                    [w EXCEPT !.users_db = [@ EXCEPT ![user_id] = after],
                              !.xp_gained = xp_gained,
                              !.achievements_to_add = added,
                              !.existed = existed])
           ELSE workers' = Goto(p, "return", [w EXCEPT !.existed = existed])
    /\ UNCHANGED <<users_file, progress_file, one_process, nops>>

\* save_user, line 130 of models.py
save_user_read(p) ==
    /\ workers[p].pc = "save_user_read"
    /\ workers' = Goto(p, "save_user_write",
                       [workers[p] EXCEPT !.users_data = load_json(users_file)])
    /\ UNCHANGED <<users_file, progress_file, one_process, nops>>

\* save_user, lines 131-132 of models.py
save_user_write(p) ==
    /\ workers[p].pc = "save_user_write"
    /\ LET w == workers[p]
           user_id == w.progress.user_id
       IN  users_file' = Put(w.users_data, user_id, w.models_users_db[user_id])
    /\ workers' = Goto(p, "return", workers[p])
    /\ UNCHANGED <<progress_file, one_process, nops>>

\* lines 229-234 of main.py
answer(p) ==
    /\ workers[p].pc = "return"
    /\ workers' = Goto(p, "idle", [workers[p] EXCEPT !.answered = TRUE])
    /\ UNCHANGED <<users_file, progress_file, one_process, nops>>

WorkersNext ==
    \/ \E p \in Workers, progress \in Payloads : receive(p, progress)
    \/ \E p \in Workers : load_users(p)
    \/ \E p \in Workers : load_progress(p)
    \/ \E p \in Workers : save_progress_read(p)
    \/ \E p \in Workers : save_progress_write(p)
    \/ \E p \in Workers : award_user(p)
    \/ \E p \in Workers : save_user_read(p)
    \/ \E p \in Workers : save_user_write(p)
    \/ \E p \in Workers : answer(p)

SpecWorkers == Init /\ [][WorkersNext]_vars

----------------------------------------------------------------------------
(* Properties *)

Calls == {"start", "get_user", "update_progress", "get_user_stats"}

\* The last call was a fresh completion by an existing user: completed=true
\* for an identity whose prior record was absent or had completed=false
FreshCompletion ==
    /\ resp.op = "update_progress"
    /\ resp.req.completed
    /\ ~resp.was_completed
    /\ resp.existed

\* The record update_progress stores for the last request
Submitted ==
    [resp.req EXCEPT !.completed_at = IF resp.req.completed THEN <<resp.now>>
                                      ELSE <<>>]

Tags(user) == {user.achievements[i] : i \in 1 .. Len(user.achievements)}

NoDuplicates(seq) ==
    \A i, j \in 1 .. Len(seq) : seq[i] = seq[j] => i = j

\* C1: a fresh completion with a score in 0..100 by an existing user
\* returns xp_gained = 10 + floor(score/10); xp and daily_xp grow by
\* xp_gained, coins by 5, total_lessons_completed by 1, and the level is
\* afterwards 1 + floor(xp/100).
C1_FreshCompletionAward ==
    (FreshCompletion /\ resp.req.score \in 0 .. 100) =>
        LET user == users_db[resp.user_id]
        IN  /\ resp.xp_gained = 10 + (resp.req.score \div 10)
            /\ user.xp = resp.before.xp + resp.xp_gained
            /\ user.daily_xp = resp.before.daily_xp + resp.xp_gained
            /\ user.coins = resp.before.coins + 5
            /\ user.total_lessons_completed
                  = resp.before.total_lessons_completed + 1
            /\ user.level = 1 + (user.xp \div 100)

\* C2: after update_progress returns success, progress.json maps the key to
\* the submitted record, and after a fresh completion users.json holds the
\* updated user, so that a reload from storage yields the updated records.
C2_UpdatePersisted ==
    resp.op = "update_progress" =>
        LET key == course_key(resp.req)
        IN  /\ key \in DOMAIN progress_file
            /\ load_json(progress_file)[key] = Submitted
            /\ FreshCompletion =>
                  /\ resp.user_id \in DOMAIN users_file
                  /\ load_json(users_file)[resp.user_id] = resp.user

\* C3: a completed record submitted a second time, nothing in between,
\* returns xp_gained = 0 and no achievements and leaves the user unchanged.
C3_Idempotent ==
    (resp.op = "update_progress" /\ resp.repeat /\ resp.req.completed) =>
        /\ resp.xp_gained = 0
        /\ resp.achievements = <<>>
        /\ resp.existed => users_db[resp.user_id] = resp.before

C3_Resubmitted ==
    /\ resp.op = "update_progress"
    /\ resp.repeat
    /\ resp.req.completed
    /\ resp.existed
    /\ resp.was_completed
    /\ day_xp[resp.user_id] > 0

\* C4: once the record of an identity has completed=true, it has
\* completed=true after every later update_progress for that identity.
C4_CompletedOneWay ==
    [][resp'.op = "update_progress" /\ nops' = nops + 1 =>
        \A k \in DOMAIN courses_progress_db :
            courses_progress_db[k].completed => courses_progress_db'[k].completed]_vars

\* C5: over /start, update_progress, get_user and get_user_stats, every
\* user's xp is non-negative and never decreases.
C5_XpMonotonic ==
    [][resp'.op \in Calls /\ nops' = nops + 1 =>
        \A u \in DOMAIN users_db :
            /\ users_db'[u].xp >= users_db[u].xp
            /\ users_db'[u].xp >= 0]_vars

\* C6: on a fresh completion by an existing user, with lastDate the date of
\* last_active before the call: lastDate = today - 1 adds 1 to the streak,
\* lastDate < today - 1 makes it 1, lastDate = today leaves it unchanged,
\* and last_active is afterwards today.
C6_StreakRule ==
    FreshCompletion =>
        LET user == users_db[resp.user_id]
            lastDate == resp.before.last_active
        IN  /\ lastDate = resp.now - 1 => user.streak = resp.before.streak + 1
            /\ lastDate < resp.now - 1 => user.streak = 1
            /\ lastDate = resp.now => user.streak = resp.before.streak
            /\ user.last_active = resp.now

C6_StreakContinued ==
    /\ FreshCompletion
    /\ resp.before.last_active = resp.now - 1
    /\ resp.before.streak > 0
    /\ users_db[resp.user_id].streak = resp.before.streak + 1

\* C7: no tag appears twice in a user's achievements, a call never removes
\* a tag, and update_progress returns only tags that were absent before
\* the call, also when the streak reaches 7 again.
C7_AchievementsOnce ==
    /\ [](\A u \in DOMAIN users_db : NoDuplicates(users_db[u].achievements))
    /\ [][resp'.op \in Calls /\ nops' = nops + 1 =>
            /\ \A u \in DOMAIN users_db :
                  /\ u \in DOMAIN users_db'
                  /\ Tags(users_db[u]) \subseteq Tags(users_db'[u])
            /\ \A i \in 1 .. Len(resp'.achievements) :
                  /\ resp'.user_id \in DOMAIN users_db
                  /\ ~Has(users_db[resp'.user_id].achievements,
                          resp'.achievements[i])
                  /\ Has(users_db'[resp'.user_id].achievements,
                         resp'.achievements[i])]_vars

C7_StreakSevenAgain ==
    /\ FreshCompletion
    /\ resp.before.streak = 6
    /\ Has(resp.before.achievements, "7_day_streak")
    /\ users_db[resp.user_id].streak = 7
    /\ resp.achievements # <<>>

\* C8: whenever daily_xp is increased by update_progress or reported by
\* get_user / get_user_stats, it is the sum of the xp_gained of the user's
\* fresh completions of the current day only.
C8_DailyXpIsTodays ==
    (/\ resp.now = today
     /\ resp.existed
     /\ \/ FreshCompletion
        \/ resp.op \in {"get_user", "get_user_stats"}) =>
        /\ resp.user.daily_xp = day_xp[resp.user_id]
        /\ users_db[resp.user_id].daily_xp = day_xp[resp.user_id]

\* C9: the mappings the handlers use are reloaded from storage before every
\* call, so that once a call has ended they hold no user or progress entry
\* that differs from the persisted store.
C9_MappingsMatchStore ==
    resp.op \in Calls =>
        /\ users_db = load_json(users_file)
        /\ courses_progress_db = load_json(progress_file)

\* C10: in get_user_stats, for every course, completed counts this user's
\* completed records of the course, total_time sums their time_spent,
\* progress = floor(100 * completed / lessons_count) and average_score =
\* floor(sum of their scores / completed), 0 when completed is 0.
C10_StatsAggregation ==
    (resp.op = "get_user_stats" /\ resp.status = "success") =>
        \A c \in DOMAIN PROGRAMMING_COURSES :
            LET db == courses_progress_db
                mine == {k \in DOMAIN db :
                            /\ k[1] = resp.user_id
                            /\ k[2] = c
                            /\ db[k].completed}
                n == Cardinality(mine)
                st == resp.courses[c]
            IN  /\ st.completed = n
                /\ st.total_time = SumOver(db, mine, "time_spent")
                /\ st.progress = (100 * n) \div PROGRAMMING_COURSES[c]
                /\ st.average_score = IF n = 0 THEN 0
                                      ELSE SumOver(db, mine, "score") \div n

\* Process p has decided its response to the call it holds or held last
Decided(p) == workers[p].pc = "return" \/ workers[p].answered

====
